---- MODULE Spec2Model ----
(***************************************************************************)
(* Model of official/vision/detection/tools/train.py: the bootstrap        *)
(* (main), the per-rank training driver (worker, train_one_epoch) and the  *)
(* learning-rate schedule (adjust_learning_rate).                          *)
(*                                                                         *)
(* Process 0 is the bootstrap process; it also hosts the in-process driver *)
(* of the single-process mode.  Processes 1..MaxDev are the processes that *)
(* main() starts with mp.Process.                                          *)
(*                                                                         *)
(* Learning rates are exact rationals <<numerator, denominator>>.          *)
(***************************************************************************)
EXTENDS Integers, Sequences, FiniteSets, TLC

\* ---------------------------------------------------------------- bounds
MaxDev == 2
MaxBatch == 2
MaxImages == 4
MaxEpochs == 2
MaxWarm == 2
MaxLogInterval == 2
NumGroups == 2
MaxItems == 3
MaxPulls == 5

Procs == 0..MaxDev
ParamGroups == 1..NumGroups

\* ------------------------------------------------------------- rationals
Rat(n, d) == <<n, d>>

RatMul(a, b) == <<a[1] * b[1], a[2] * b[2]>>

RatEq(a, b) == a[1] * b[2] = b[1] * a[2]

RatLt(a, b) == a[1] * b[2] < b[1] * a[2]

RECURSIVE RatPow(_, _)
RatPow(a, k) == IF k = 0 THEN <<1, 1>> ELSE RatMul(a, RatPow(a, k - 1))

\* ----------------------------------------------------- bisect.bisect_right
RECURSIVE BisectLoop(_, _, _, _)
BisectLoop(a, x, lo, hi) ==
    IF lo < hi
    THEN LET mid == (lo + hi) \div 2
         IN  IF x < a[mid + 1]
             THEN BisectLoop(a, x, lo, mid)
             ELSE BisectLoop(a, x, mid + 1, hi)
    ELSE lo

\* bisect.bisect_left, in the place of bisect_right
RECURSIVE BisectLeftLoop(_, _, _, _)
BisectLeftLoop(a, x, lo, hi) ==
    IF lo < hi
    THEN LET mid == (lo + hi) \div 2
         IN  IF a[mid + 1] < x
             THEN BisectLeftLoop(a, x, mid + 1, hi)
             ELSE BisectLeftLoop(a, x, lo, mid)
    ELSE lo

bisect_left(a, x) == BisectLeftLoop(a, x, 0, Len(a))

\* bisect.bisect_right(a, x)
bisect_right(a, x) == BisectLoop(a, x, 0, Len(a))

\* ------------------------------------------------------------ the sampler
\* dataset indices are counted from 1
RECURSIVE Fact(_)
Fact(n) == IF n <= 1 THEN 1 ELSE n * Fact(n - 1)

InsertAt(s, i, x) == SubSeq(s, 1, i - 1) \o <<x>> \o SubSeq(s, i, Len(s))

\* the k-th order of the indices 1..n, k in 0..n!-1; the 0-th is 1, 2, .., n
RECURSIVE NthOrder(_, _)
NthOrder(n, k) ==
    IF n = 0
    THEN <<>>
    ELSE InsertAt(NthOrder(n - 1, k \div n), n - (k % n), n)

\* the order a generator seeded with sd gives to the indices in one pass
Shuffle(n, sd, pass) == NthOrder(n, (sd + pass) % Fact(n))

\* lines 275-280
compute_aspect_ratios(ds) == [i \in DOMAIN ds |-> Rat(ds[i].height, ds[i].width)]

\* sorted(bins)
RECURSIVE sorted(_)
sorted(bins) ==
    IF bins = <<>>
    THEN <<>>
    ELSE LET rest == sorted(Tail(bins))
             k == Cardinality({i \in DOMAIN rest : RatLt(rest[i], Head(bins))})
         IN  InsertAt(rest, k + 1, Head(bins))

\* bisect.bisect_right on ratios
RECURSIVE BisectRatioLoop(_, _, _, _)
BisectRatioLoop(a, x, lo, hi) ==
    IF lo < hi
    THEN LET mid == (lo + hi) \div 2
         IN  IF RatLt(x, a[mid + 1])
             THEN BisectRatioLoop(a, x, lo, mid)
             ELSE BisectRatioLoop(a, x, mid + 1, hi)
    ELSE lo

\* bisect.bisect_left on ratios
RECURSIVE BisectRatioLeftLoop(_, _, _, _)
BisectRatioLeftLoop(a, x, lo, hi) ==
    IF lo < hi
    THEN LET mid == (lo + hi) \div 2
         IN  IF RatLt(a[mid + 1], x)
             THEN BisectRatioLeftLoop(a, x, mid + 1, hi)
             ELSE BisectRatioLeftLoop(a, x, lo, mid)
    ELSE lo

\* a ratio on a threshold put in the lower bucket
quantize_left(x, bins) ==
    [i \in DOMAIN x |-> BisectRatioLeftLoop(sorted(bins), x[i], 0, Len(bins))]

\* lines 282-283
quantize(x, bins) ==
    [i \in DOMAIN x |-> BisectRatioLoop(sorted(bins), x[i], 0, Len(bins))]

\* a sampler that never buckets
BucketedNever(aspect_grouping_arg) == FALSE

\* line 285: whether build_sampler buckets
Bucketed(aspect_grouping_arg) == Len(aspect_grouping_arg) # 0

\* a sampler that is not wrapped
WrapsNot == FALSE

\* lines 286 and 290: the sampler is wrapped in Infinite
Wraps == TRUE

\* lines 274-290
build_sampler(train_dataset, aspect_grouping_arg) ==
    IF ~Bucketed(aspect_grouping_arg)
    THEN [kind |-> "random", group_ids |-> <<>>, infinite |-> Wraps]
    ELSE [kind |-> "grouped",
          group_ids |-> quantize(compute_aspect_ratios(train_dataset),
                                 aspect_grouping_arg),
          infinite |-> Wraps]

\* RandomSampler with drop_last: the batches of one pass
RandomPass(order, b) ==
    [k \in 1..(Len(order) \div b) |-> SubSeq(order, (k - 1) * b + 1, k * b)]

\* GroupedRandomSampler: the batches of one pass
RECURSIVE GroupedWalk(_, _, _, _, _)
GroupedWalk(order, group_ids, b, buffers, out) ==
    IF order = <<>>
    THEN out
    ELSE LET ind == Head(order)
             g == group_ids[ind]
             buf == Append(buffers[g], ind)
         IN  IF Len(buf) = b
             THEN GroupedWalk(Tail(order), group_ids, b,
                              [buffers EXCEPT ![g] = <<>>], Append(out, buf))
             ELSE GroupedWalk(Tail(order), group_ids, b,
                              [buffers EXCEPT ![g] = buf], out)

GroupedPass(order, group_ids, b) ==
    GroupedWalk(order, group_ids, b,
                [g \in {group_ids[i] : i \in DOMAIN group_ids} |-> <<>>], <<>>)

\* the batches of the pass-th pass of a sampler over n items: one order is
\* drawn for the whole pass
PassOf(smp, n, b, sd, pass) ==
    CHOOSE batches \in
        {IF s.kind = "grouped"
         THEN GroupedPass(order, s.group_ids, b)
         ELSE RandomPass(order, b) : order \in {Shuffle(n, sd, pass)}, s \in {smp}} :
        TRUE

NoLoader == [made |-> 0, pulls |-> 0, sampler |-> <<>>, pass |-> 0,
             queue |-> <<>>, out |-> <<>>]

\* lines 293-314 and 129: the iterator over the data loader
LoaderNew(old, smp, n, b, sd) ==
    [made |-> old.made + 1, pulls |-> 0, sampler |-> smp, pass |-> 1,
     queue |-> PassOf(smp, n, b, sd, 0), out |-> <<>>]

\* next() on the loader: whether it yields, the batch, the loader afterwards
LoaderNext(ld, n, b, sd) ==
    IF ld.queue # <<>>
    THEN [ok |-> TRUE, batch |-> Head(ld.queue),
          loader |-> [ld EXCEPT !.pulls = @ + 1, !.queue = Tail(@),
                                !.out = Append(@, Head(ld.queue))]]
    ELSE LET q == PassOf(ld.sampler, n, b, sd, ld.pass)
         IN  IF ld.sampler.infinite /\ q # <<>>
             THEN [ok |-> TRUE, batch |-> Head(q),
                   loader |-> [ld EXCEPT !.pulls = @ + 1, !.pass = @ + 1,
                                         !.queue = Tail(q), !.out = <<Head(q)>>]]
             ELSE [ok |-> FALSE, batch |-> <<>>, loader |-> ld]

\* --------------------------------------------------------- configurations
\* lr_decay_stages: the strictly increasing lists of at most two epochs
StageLists ==
    {s \in UNION {[1..n -> 0..MaxEpochs] : n \in 0..2} :
        \A i \in 1..(Len(s) - 1) : s[i] < s[i + 1]}

\* the losses a step can return
LossValues == {0, 1}

\* the durations the clock can measure, in ticks
Durations == {1}

\* the configurations of the runs that vary the topology and the loop sizes
Cfgs ==
    [basic_lr : {Rat(1, 100)},
     lr_decay_rate : {Rat(1, 10)},
     lr_decay_stages : {<<1>>},
     warm_iters : {1},
     max_epoch : 0..MaxEpochs,
     nr_images_epoch : 0..MaxImages,
     log_interval : 1..MaxLogInterval]

Args ==
    [ngpus : (-2)..(MaxDev + 1),
     batch_size : 1..MaxBatch]

\* the configurations of the runs that vary the learning-rate schedule
ScheduleCfgs ==
    [basic_lr : {Rat(0, 1), Rat(1, 100)},
     lr_decay_rate : {Rat(1, 10)},
     lr_decay_stages : StageLists,
     warm_iters : 0..MaxWarm,
     max_epoch : {MaxEpochs},
     nr_images_epoch : {MaxImages},
     log_interval : {1}]

ScheduleArgs ==
    [ngpus : {-1},
     batch_size : 1..MaxBatch]

ScheduleDevices == {1, 2}

\* the configurations of the runs that vary the order in which workers end
JoinCfgs ==
    [basic_lr : {Rat(1, 100)},
     lr_decay_rate : {Rat(1, 10)},
     lr_decay_stages : {<<1>>},
     warm_iters : {1},
     max_epoch : {1},
     nr_images_epoch : 0..MaxImages,
     log_interval : {1}]

JoinArgs ==
    [ngpus : (-2)..(MaxDev + 1),
     batch_size : {1}]

\* the image shapes of the datasets: wide, square, tall
Wide == [height |-> 1, width |-> 2]

Square == [height |-> 1, width |-> 1]

Tall == [height |-> 2, width |-> 1]

Shapes == {Wide, Square, Tall}

\* line 274: the default of aspect_grouping
DefaultGrouping == <<Rat(1, 1)>>

\* the dataset of the runs of the driver: one wide image, then square ones,
\* enough of them to fill a batch
DriverDataset == [i \in 1..(MaxBatch + 1) |-> IF i = 1 THEN Wide ELSE Square]

\* the datasets and threshold lists build_sampler is called with
Datasets == UNION {[1..n -> Shapes] : n \in 0..MaxItems}

GroupingLists ==
    {<<>>, <<Rat(1, 1)>>, <<Rat(2, 1), Rat(1, 1)>>, <<Rat(1, 2), Rat(3, 2)>>}

VARIABLES
    cfg,            \* model.cfg
    args,           \* parsed command line
    valid_nr_dev,   \* mge.get_device_count("gpu")
    dataset,        \* the image shapes of the training dataset
    aspect_grouping,\* the thresholds build_sampler is called with
    seed,           \* the seed of the sampler's generator
    bpc,            \* position of main()
    world_size,     \* main()'s world_size
    exit_code,      \* exit status of the bootstrap, -1 while running
    log_dir,        \* whether the log directory exists
    processes,      \* main()'s list of started processes
    joined,         \* number of processes main() has joined
    wpc,            \* position of worker() in each process
    wargs,          \* (rank, world_size) passed to worker()
    group,          \* processes that called dist.init_process_group
    epoch_id,
    step,
    tot_steps,
    lr,             \* opt.param_groups[g]["lr"]
    meter,
    time_meter,
    loader,         \* train_loader and the sampler behind it
    files,          \* checkpoint files in the log directory
    hist            \* what each process has done so far, in order

bvars == <<bpc, world_size, exit_code, log_dir, processes, joined>>
wvars == <<wpc, wargs, group, epoch_id, step, tot_steps, lr, meter, time_meter,
           loader, files, hist>>
cvars == <<cfg, args, valid_nr_dev, dataset, aspect_grouping, seed>>
vars == <<cvars, bvars, wvars>>

\* ------------------------------------------------------------ AverageMeter
\* a fixed-length vector of (running sum, count) pairs
time_record_len == 2

losses_keys == <<"total_loss">>

num_losses == Len(losses_keys)

NoMeter == <<>>

MeterNew(record_len) == [i \in 1..record_len |-> [sum |-> 0, count |-> 0]]

MeterUpdate(m, val) ==
    [i \in DOMAIN m |-> [sum |-> m[i].sum + val[i], count |-> m[i].count + 1]]

MeterReset(m) == [i \in DOMAIN m |-> [sum |-> 0, count |-> 0]]

MeterCanAverage(m) == \A i \in DOMAIN m : m[i].count # 0

MeterAverage(m) == [i \in DOMAIN m |-> Rat(m[i].sum, m[i].count)]

\* ------------------------------------------------------------------ Init
NoLr == [g \in ParamGroups |-> Rat(0, 1)]

Fresh ==
    /\ bpc = "check"
    /\ world_size = 0
    /\ exit_code = -1
    /\ processes = <<>>
    /\ joined = 0
    /\ wpc = [p \in Procs |-> "none"]
    /\ wargs = [p \in Procs |-> [rank |-> 0, world_size |-> 0]]
    /\ group = {}
    /\ epoch_id = [p \in Procs |-> 0]
    /\ step = [p \in Procs |-> 0]
    /\ tot_steps = [p \in Procs |-> 0]
    /\ lr = [p \in Procs |-> NoLr]
    /\ meter = [p \in Procs |-> NoMeter]
    /\ time_meter = [p \in Procs |-> NoMeter]
    /\ loader = [p \in Procs |-> NoLoader]
    /\ files = {}
    /\ hist = [p \in Procs |-> <<>>]

\* the data of the runs of the driver
DriverData ==
    /\ dataset = DriverDataset
    /\ aspect_grouping = DefaultGrouping
    /\ seed = 0

Init ==
    /\ DriverData
    /\ cfg \in Cfgs
    /\ args \in Args
    /\ valid_nr_dev \in 0..MaxDev
    /\ log_dir \in BOOLEAN
    /\ Fresh

InitSchedule ==
    /\ DriverData
    /\ cfg \in ScheduleCfgs
    /\ args \in ScheduleArgs
    /\ valid_nr_dev \in ScheduleDevices
    /\ log_dir = FALSE
    /\ Fresh

InitJoin ==
    /\ DriverData
    /\ cfg \in JoinCfgs
    /\ args \in JoinArgs
    /\ valid_nr_dev \in 0..MaxDev
    /\ log_dir = FALSE
    /\ Fresh

\* ------------------------------------------------------------------ main
\* a device check that clamps the request to what is available
CheckDevicesClamp ==
    /\ bpc = "check"
    /\ world_size' = IF args.ngpus = -1 \/ args.ngpus > valid_nr_dev
                     THEN valid_nr_dev
                     ELSE args.ngpus
    /\ bpc' = "mkdir"
    /\ UNCHANGED <<cvars, exit_code, log_dir, processes, joined, wvars>>

\* lines 66-76: the device check
CheckDevices ==
    /\ bpc = "check"
    /\ IF args.ngpus = -1
       THEN /\ world_size' = valid_nr_dev
            /\ bpc' = "mkdir"
            /\ exit_code' = exit_code
       ELSE IF args.ngpus > valid_nr_dev
            THEN /\ bpc' = "exited"
                 /\ exit_code' = 1
                 /\ world_size' = world_size
            ELSE /\ world_size' = args.ngpus
                 /\ bpc' = "mkdir"
                 /\ exit_code' = exit_code
    /\ UNCHANGED <<cvars, log_dir, processes, joined, wvars>>

\* a bootstrap that starts processes for a single device too
MultiProcessFromOne == world_size >= 1

\* line 82: whether main() starts processes
MultiProcess == world_size > 1

\* a bootstrap that creates no directory
MakeDirsNot(exists) == exists

\* lines 79-80: the log directory after the check and os.makedirs
MakeDirs(exists) == TRUE

\* lines 78-82: the log directory, then the choice of mode
MakeLogDir ==
    /\ bpc = "mkdir"
    /\ log_dir' = MakeDirs(log_dir)
    /\ bpc' = IF MultiProcess THEN "spawn" ELSE "call"
    /\ UNCHANGED <<cvars, world_size, exit_code, processes, joined, wvars>>

\* the process started for loop index i
StartProcess(i) == i + 1

\* ranks counted from one
SpawnArgsOneBased(i) == [rank |-> i + 1, world_size |-> world_size]

\* the arguments of the worker started for loop index i
SpawnArgs(i) == [rank |-> i, world_size |-> world_size]

\* the loop indices of the spawn loop
SpawnRange == 0..(world_size - 1)

\* lines 85-88: one iteration of the spawn loop
Spawn ==
    /\ bpc = "spawn"
    /\ LET i == Len(processes)
       IN  /\ i \in SpawnRange
           /\ wargs' = [wargs EXCEPT ![StartProcess(i)] = SpawnArgs(i)]
           /\ wpc' = [wpc EXCEPT ![StartProcess(i)] = "start"]
           /\ processes' = Append(processes, StartProcess(i))
    /\ UNCHANGED <<cvars, bpc, world_size, exit_code, log_dir, joined, group,
                   epoch_id, step, tot_steps, lr, meter, time_meter, loader, files,
                   hist>>

\* line 90: the spawn loop is over, the join loop begins
SpawnDone ==
    /\ bpc = "spawn"
    /\ Len(processes) \notin SpawnRange
    /\ bpc' = "join"
    /\ UNCHANGED <<cvars, world_size, exit_code, log_dir, processes, joined, wvars>>

\* a join that gives up as soon as any worker has crashed
JoinReturnsOnPeerFailure(p) ==
    \/ wpc[p] \in {"done", "failed", "exhausted", "divzero", "crashed"}
    \/ \E q \in Procs : wpc[q] = "crashed"

\* a join that does not wait
JoinReturnsAtOnce(p) == wpc[p] # "none"

\* whether p.join() returns
JoinReturns(p) == wpc[p] \in {"done", "failed", "exhausted", "divzero", "crashed"}

\* lines 90-91: one p.join() that returns
Join ==
    /\ bpc = "join"
    /\ joined < Len(processes)
    /\ JoinReturns(processes[joined + 1])
    /\ joined' = joined + 1
    /\ UNCHANGED <<cvars, bpc, world_size, exit_code, log_dir, processes, wvars>>

\* the end of main() in multi-process mode
JoinDone ==
    /\ bpc = "join"
    /\ joined = Len(processes)
    /\ bpc' = "done"
    /\ exit_code' = 0
    /\ UNCHANGED <<cvars, world_size, log_dir, processes, joined, wvars>>

\* the arguments of the in-process driver
InProcessArgs == [rank |-> 0, world_size |-> 1]

\* line 93: worker(0, 1, args) called in the bootstrap process
CallWorker ==
    /\ bpc = "call"
    /\ wargs' = [wargs EXCEPT ![0] = InProcessArgs]
    /\ wpc' = [wpc EXCEPT ![0] = "start"]
    /\ bpc' = "inproc"
    /\ UNCHANGED <<cvars, world_size, exit_code, log_dir, processes, joined, group,
                   epoch_id, step, tot_steps, lr, meter, time_meter, loader, files,
                   hist>>

\* line 93: worker(0, 1, args) returns and main() ends
CallReturns ==
    /\ bpc = "inproc"
    /\ wpc[0] = "done"
    /\ bpc' = "done"
    /\ exit_code' = 0
    /\ UNCHANGED <<cvars, world_size, log_dir, processes, joined, wvars>>

\* ---------------------------------------------------------------- worker
rank(p) == wargs[p].rank

\* a worker that takes its rank for the size of the group
worldFromRank(p) == wargs[p].rank + 1

world(p) == wargs[p].world_size

batch_size == args.batch_size

\* one entry of a history: a step, a log line or a checkpoint; wrote tells
\* whether the step wrote the rate to the parameter groups, covered the counts
\* of the loss meter and of the time meter that a log line averaged over
Event(type, e, s, rate, wrote, covered) ==
    [type |-> type, epoch |-> e, step |-> s, lr |-> rate, wrote |-> wrote,
     covered |-> covered]

\* lines 118-120: the rate the optimizer is constructed with
InitialLr(ws) ==
    RatMul(RatMul(cfg.basic_lr, Rat(ws, 1)), Rat(batch_size, 1))

\* lines 293-314 and 129: the loader over the default sampler
build_dataloader(old) ==
    LoaderNew(old, build_sampler(dataset, DefaultGrouping), Len(dataset),
              batch_size, seed)

\* lines 97-129: process group, model, optimizer, data loader
WorkerStart(p) ==
    /\ wpc[p] = "start"
    /\ group' = IF world(p) > 1 THEN group \cup {p} ELSE group
    /\ lr' = [lr EXCEPT ![p] = [g \in ParamGroups |-> InitialLr(world(p))]]
    /\ loader' = [loader EXCEPT ![p] = build_dataloader(@)]
    /\ epoch_id' = [epoch_id EXCEPT ![p] = 0]
    /\ wpc' = [wpc EXCEPT ![p] = "epoch"]
    /\ UNCHANGED <<cvars, bvars, wargs, step, tot_steps, meter, time_meter, files, hist>>

\* lines 133-141: the rate written at the start of an epoch
EpochLr(e, ws) ==
    RatMul(RatMul(RatMul(cfg.basic_lr, Rat(ws, 1)), Rat(batch_size, 1)),
           RatPow(cfg.lr_decay_rate, bisect_right(cfg.lr_decay_stages, e)))

\* the step count of one device taken for that of every device
TotStepsOneDevice(ws) == cfg.nr_images_epoch \div batch_size

\* line 143
TotSteps(ws) == cfg.nr_images_epoch \div (batch_size * ws)

\* meters that live as long as the worker
EpochMeterCarry(old, record_len) ==
    IF old = NoMeter THEN MeterNew(record_len) ELSE old

\* lines 183-184: the meters of one call of train_one_epoch
EpochMeter(old, record_len) == MeterNew(record_len)

\* lines 131-143 and 183-185: the head of one epoch
EpochBegin(p) ==
    /\ wpc[p] = "epoch"
    /\ epoch_id[p] < cfg.max_epoch
    /\ lr' = [lr EXCEPT ![p] =
                 [g \in ParamGroups |-> EpochLr(epoch_id[p], world(p))]]
    /\ tot_steps' = [tot_steps EXCEPT ![p] = TotSteps(world(p))]
    /\ meter' = [meter EXCEPT ![p] = EpochMeter(@, num_losses)]
    /\ time_meter' = [time_meter EXCEPT ![p] = EpochMeter(@, time_record_len)]
    /\ step' = [step EXCEPT ![p] = 0]
    /\ wpc' = [wpc EXCEPT ![p] = "step"]
    /\ UNCHANGED <<cvars, bvars, wargs, group, epoch_id, loader, files, hist>>

\* line 131: the epoch loop is over, worker() returns
WorkerReturn(p) ==
    /\ wpc[p] = "epoch"
    /\ ~(epoch_id[p] < cfg.max_epoch)
    /\ wpc' = [wpc EXCEPT ![p] = "done"]
    /\ UNCHANGED <<cvars, bvars, wargs, group, epoch_id, step, tot_steps, lr, meter,
                   time_meter, loader, files, hist>>

\* lines 244-252
base_lr(e, ws) ==
    RatMul(RatMul(RatMul(cfg.basic_lr, Rat(ws, 1)), Rat(batch_size, 1)),
           RatPow(cfg.lr_decay_rate, bisect_right(cfg.lr_decay_stages, e)))

\* a ramp that starts at zero
lr_factor_from_zero(s) == Rat(s, cfg.warm_iters)

\* line 255
lr_factor(s) == Rat(s + 1, cfg.warm_iters)

\* a warmup in every epoch
InWarmupOfAnyEpoch(e, s) == s < cfg.warm_iters

\* line 254: whether the call writes the rate
InWarmup(e, s) == e = 0 /\ s < cfg.warm_iters

\* lines 243-257: the optimizer's rates after the call
adjust_learning_rate(opt, e, s, ws) ==
    IF InWarmup(e, s)
    THEN [g \in ParamGroups |-> RatMul(base_lr(e, ws), lr_factor(s))]
    ELSE opt

\* every rank takes the part of the logger
IsLoggerAny(p) == TRUE

\* line 205: who logs
IsLogger(p) == rank(p) = 0

\* line 213: when the logger logs
LogsAt(s) == s % cfg.log_interval = 0

\* a log line that leaves the meters as they are
AfterLogKeep(m) == m

\* lines 224-225: the meters after a log line
AfterLog(m) == MeterReset(m)

\* a step that records nothing
RecordedNot(m, val) == m

\* lines 203 and 212: meter.update(val)
Recorded(m, val) == MeterUpdate(m, val)

\* lines 176-181 and 200: the step waits for a crashed peer that has not
\* taken it
Blocked(p) ==
    /\ world(p) > 1
    /\ \E q \in Procs \ {p} :
           /\ wpc[q] = "crashed"
           /\ \/ epoch_id[q] < epoch_id[p]
              \/ epoch_id[q] = epoch_id[p] /\ step[q] <= step[p]

\* lines 186-225: one iteration of the step loop
TrainStep(p) ==
    /\ wpc[p] = "step"
    /\ step[p] < tot_steps[p]
    /\ ~Blocked(p)
    /\ LET wrote == InWarmup(epoch_id[p], step[p])
           rate == adjust_learning_rate(lr[p], epoch_id[p], step[p], world(p))
           nxt == LoaderNext(loader[p], Len(dataset), batch_size, seed)
           stepped == Append(hist[p], Event("step", epoch_id[p], step[p], rate,
                                            wrote, <<0, 0>>))
       IN  /\ lr' = [lr EXCEPT ![p] = rate]
           /\ IF ~nxt.ok
              THEN \* next(data_queue) raises StopIteration
                   /\ wpc' = [wpc EXCEPT ![p] = "exhausted"]
                   /\ UNCHANGED <<meter, time_meter, loader, hist, step>>
              ELSE /\ loader' = [loader EXCEPT ![p] = nxt.loader]
                   /\ step' = [step EXCEPT ![p] = step[p] + 1]
                   /\ \E loss_list \in [1..num_losses -> LossValues],
                         times \in [1..time_record_len -> Durations] :
                         LET tm == Recorded(time_meter[p], times)
                             m == Recorded(meter[p], loss_list)
                         IN  IF ~IsLogger(p)
                             THEN /\ meter' = meter
                                  /\ time_meter' = [time_meter EXCEPT ![p] = tm]
                                  /\ hist' = [hist EXCEPT ![p] = stepped]
                                  /\ wpc' = wpc
                             ELSE IF ~LogsAt(step[p])
                             THEN /\ meter' = [meter EXCEPT ![p] = m]
                                  /\ time_meter' = [time_meter EXCEPT ![p] = tm]
                                  /\ hist' = [hist EXCEPT ![p] = stepped]
                                  /\ wpc' = wpc
                             ELSE IF MeterCanAverage(m) /\ MeterCanAverage(tm)
                             THEN /\ meter' = [meter EXCEPT ![p] = AfterLog(m)]
                                  /\ time_meter' = [time_meter EXCEPT ![p] = AfterLog(tm)]
                                  /\ hist' = [hist EXCEPT ![p] =
                                        Append(stepped,
                                               Event("log", epoch_id[p], step[p], rate,
                                                     FALSE,
                                                     <<m[1].count, tm[1].count>>))]
                                  /\ wpc' = wpc
                             ELSE \* average() divides by zero
                                  /\ meter' = [meter EXCEPT ![p] = m]
                                  /\ time_meter' = [time_meter EXCEPT ![p] = tm]
                                  /\ hist' = [hist EXCEPT ![p] = stepped]
                                  /\ wpc' = [wpc EXCEPT ![p] = "divzero"]
    /\ UNCHANGED <<cvars, bvars, wargs, group, epoch_id, tot_steps, files>>

\* every rank saves
IsSaverAny(p) == TRUE

\* line 154: who writes the checkpoint
IsSaver(p) == rank(p) = 0

\* lines 155-157: the file name, without directory and suffix
save_path(e) == <<"epoch", e>>

\* epochs recorded from one
CheckpointOneBased(e) == [name |-> save_path(e), epoch |-> e + 1]

\* lines 158-160: the file written
Checkpoint(e) == [name |-> save_path(e), epoch |-> e]

\* line 42 and lines 78, 156: os.path.basename(args.file).split(".")[0]
ModelBase == "net"

\* line 78
LogDirName == <<"log-of", ModelBase>>

\* lines 155-157: the directory of save_path
SaveDir == <<"log-of", ModelBase>>

\* whether mge.save finds the directory it writes into
DirExists(d) == d = LogDirName /\ log_dir

\* lines 154-161: the end of one epoch
EpochEnd(p) ==
    /\ wpc[p] = "step"
    /\ ~(step[p] < tot_steps[p])
    /\ IF IsSaver(p)
       THEN IF DirExists(SaveDir)
            THEN /\ files' = {f \in files : f.name # save_path(epoch_id[p])}
                                \cup {Checkpoint(epoch_id[p])}
                 /\ hist' = [hist EXCEPT ![p] =
                       Append(@, Event("ckpt", epoch_id[p], step[p], lr[p], FALSE,
                                       <<0, 0>>))]
                 /\ epoch_id' = [epoch_id EXCEPT ![p] = @ + 1]
                 /\ wpc' = [wpc EXCEPT ![p] = "epoch"]
            ELSE /\ wpc' = [wpc EXCEPT ![p] = "failed"]
                 /\ UNCHANGED <<files, hist, epoch_id>>
       ELSE /\ epoch_id' = [epoch_id EXCEPT ![p] = @ + 1]
            /\ wpc' = [wpc EXCEPT ![p] = "epoch"]
            /\ UNCHANGED <<files, hist>>
    /\ UNCHANGED <<cvars, bvars, wargs, group, step, tot_steps, lr, meter, time_meter,
                   loader>>

\* ------------------------------------------------------------------ Next
Next ==
    \/ CheckDevices
    \/ MakeLogDir
    \/ Spawn
    \/ SpawnDone
    \/ Join
    \/ JoinDone
    \/ CallWorker
    \/ CallReturns
    \/ \E p \in Procs : WorkerStart(p)
    \/ \E p \in Procs : EpochBegin(p)
    \/ \E p \in Procs : TrainStep(p)
    \/ \E p \in Procs : EpochEnd(p)
    \/ \E p \in Procs : WorkerReturn(p)

Spec == Init /\ [][Next]_vars

\* one started process dies in its step loop
Crash(p) ==
    /\ p # 0
    /\ wpc[p] = "step"
    /\ \A q \in Procs : wpc[q] # "crashed"
    /\ wpc' = [wpc EXCEPT ![p] = "crashed"]
    /\ UNCHANGED <<cvars, bvars, wargs, group, epoch_id, step, tot_steps, lr, meter,
                   time_meter, loader, files, hist>>

NextCrash ==
    \/ Next
    \/ \E p \in Procs : Crash(p)

\* the runs in which workers can die
SpecCrash == InitJoin /\ [][NextCrash]_vars

\* build_sampler called on its own
BuildSampler ==
    /\ loader[0].made = 0
    /\ loader' = [loader EXCEPT ![0] =
                     LoaderNew(@, build_sampler(dataset, aspect_grouping),
                               Len(dataset), batch_size, seed)]
    /\ UNCHANGED <<cvars, bvars, wpc, wargs, group, epoch_id, step, tot_steps, lr,
                   meter, time_meter, files, hist>>

\* one batch taken from the sampler
NextBatch ==
    /\ loader[0].made = 1
    /\ loader[0].pulls < MaxPulls
    /\ LET nxt == LoaderNext(loader[0], Len(dataset), batch_size, seed)
       IN  /\ nxt.ok
           /\ loader' = [loader EXCEPT ![0] = nxt.loader]
    /\ UNCHANGED <<cvars, bvars, wpc, wargs, group, epoch_id, step, tot_steps, lr,
                   meter, time_meter, files, hist>>

NextSampler ==
    \/ BuildSampler
    \/ NextBatch

InitSampler ==
    /\ dataset \in Datasets
    /\ aspect_grouping \in GroupingLists
    /\ seed \in 0..(Fact(Len(dataset)) - 1)
    /\ cfg \in {c \in JoinCfgs : c.nr_images_epoch = 0}
    /\ args \in ScheduleArgs
    /\ valid_nr_dev = 1
    /\ log_dir = FALSE
    /\ Fresh

\* the runs of the sampler alone
SpecSampler == InitSampler /\ [][NextSampler]_vars

\* every process that can run does run: the operating system schedules the
\* bootstrap and the workers
FairSpec == InitJoin /\ [][Next]_vars /\ WF_vars(Next)

SpecSchedule == InitSchedule /\ [][Next]_vars

\* ------------------------------------------------------------- properties
Started(p) == wpc[p] # "none"

\* the positions in p's history of the events of one type
Events(p, type) == {i \in DOMAIN hist[p] : hist[p][i].type = type}

\* the number of steps p has taken in epoch e
StepsIn(p, e) == Cardinality({i \in Events(p, "step") : hist[p][i].epoch = e})

\* the number of checkpoints p wrote before position i of its history
CkptsBefore(p, i) == Cardinality({j \in Events(p, "ckpt") : j < i})

SameLr(a, b) == \A g \in ParamGroups : RatEq(a[g], b[g])

TooManyRequested == args.ngpus # -1 /\ args.ngpus > valid_nr_dev

\* C1: a request for more devices than there are ends the bootstrap with exit
\* code 1; no process is started, the in-process driver is not run, no step is
\* taken and no checkpoint is written.
C1_FailFast ==
    TooManyRequested =>
        /\ bpc \in {"check", "exited"}
        /\ bpc = "exited" => exit_code = 1
        /\ exit_code \in {-1, 1}
        /\ processes = <<>>
        /\ \A p \in Procs : ~Started(p) /\ hist[p] = <<>>
        /\ files = {}

C1_Witness == TooManyRequested /\ bpc = "exited" /\ exit_code = 1

\* C2: in multi-process mode the bootstrap starts exactly world_size processes,
\* with the ranks 0..world_size-1, each once, and every one of them is given
\* the same world_size.
C2_RanksExact ==
    world_size > 1 =>
        /\ Len(processes) <= world_size
        /\ \A i, j \in DOMAIN processes :
               i # j => /\ processes[i] # processes[j]
                        /\ rank(processes[i]) # rank(processes[j])
        /\ {rank(processes[i]) : i \in DOMAIN processes} = 0..(Len(processes) - 1)
        /\ \A i \in DOMAIN processes : world(processes[i]) = world_size
        /\ {p \in Procs : Started(p)} = {processes[i] : i \in DOMAIN processes}
        /\ bpc \in {"join", "done"} =>
               /\ Len(processes) = world_size
               /\ {rank(processes[i]) : i \in DOMAIN processes} = 0..(world_size - 1)

C2_Witness ==
    /\ world_size > 1
    /\ bpc = "done"
    /\ Len(processes) = world_size

AllWorkersDone ==
    \A i \in DOMAIN processes :
        wpc[processes[i]] \in {"done", "failed", "exhausted", "divzero", "crashed"}

\* C3: in multi-process mode the bootstrap does not end while a process it
\* started is running, and once all of them have ended the bootstrap ends.
C3_JoinWaits ==
    /\ [](bpc = "done" /\ world_size > 1 => AllWorkersDone)
    /\ (world_size > 1 /\ Len(processes) = world_size /\ AllWorkersDone)
           ~> (bpc = "done")

C3_Witness ==
    /\ bpc = "done"
    /\ world_size > 1
    /\ \E i \in DOMAIN processes : hist[processes[i]] # <<>>

\* C4: whatever the number of workers and their interleaving, only the worker of
\* rank 0 writes checkpoints and emits log lines.
C4_OnlyRankZero ==
    \A p \in Procs :
        \A i \in DOMAIN hist[p] :
            hist[p][i].type \in {"ckpt", "log"} => rank(p) = 0

C4_Witness ==
    \E p, q \in Procs :
        /\ rank(p) = 0
        /\ rank(q) # 0
        /\ Events(p, "ckpt") # {}
        /\ Events(p, "log") # {}
        /\ Events(q, "step") # {}
        /\ wpc[q] = "done"

\* the steps of one epoch as the claim states them
ClaimedSteps(p) == cfg.nr_images_epoch \div (args.batch_size * wargs[p].world_size)

\* C5: every worker takes floor(nr_images_epoch / (batch_size * world_size))
\* steps in each epoch, so all ranks of a finished run have taken the same
\* number of steps, max_epoch times that value.
C5_StepsPerEpoch ==
    \A p \in Procs :
        Started(p) =>
            /\ \A e \in 0..(cfg.max_epoch - 1) :
                   /\ StepsIn(p, e) <= ClaimedSteps(p)
                   /\ (epoch_id[p] > e /\ wpc[p] # "start") =>
                          StepsIn(p, e) = ClaimedSteps(p)
            /\ wpc[p] = "done" =>
                   /\ Cardinality(Events(p, "step")) = cfg.max_epoch * ClaimedSteps(p)
                   /\ \A q \in Procs :
                          wpc[q] = "done" =>
                              Cardinality(Events(q, "step"))
                                  = Cardinality(Events(p, "step"))

C5_Witness ==
    \E p, q \in Procs :
        /\ p # q
        /\ wpc[p] = "done"
        /\ wpc[q] = "done"
        /\ cfg.max_epoch = 2
        /\ cfg.nr_images_epoch = 3
        /\ args.batch_size = 1
        /\ Cardinality(Events(p, "step")) = 2

\* C6: rank 0 writes one checkpoint per epoch, epoch_<e> holding epoch e, after
\* the last step of epoch e and before the first step of epoch e+1; a finished
\* run leaves the checkpoints of the epochs 0..max_epoch-1, written in that
\* order, also when the epochs have no steps.
C6_CheckpointPerEpoch ==
    /\ (\A p \in Procs : ~Started(p)) => files = {}
    /\ \A p \in Procs :
           (Started(p) /\ rank(p) = 0) =>
               /\ \A i \in Events(p, "ckpt") :
                      /\ hist[p][i].epoch = CkptsBefore(p, i)
                      /\ Cardinality({j \in Events(p, "step") :
                                         j < i /\ hist[p][j].epoch = hist[p][i].epoch})
                             = ClaimedSteps(p)
               /\ \A i \in Events(p, "step") : CkptsBefore(p, i) = hist[p][i].epoch
               /\ files = {[name |-> <<"epoch", e>>, epoch |-> e] :
                              e \in 0..(Cardinality(Events(p, "ckpt")) - 1)}
               /\ wpc[p] # "start" => Cardinality(Events(p, "ckpt")) = epoch_id[p]
               /\ wpc[p] = "done" => Cardinality(files) = cfg.max_epoch

C6_Witness ==
    \E p \in Procs :
        /\ rank(p) = 0
        /\ wpc[p] = "done"
        /\ cfg.max_epoch = 2
        /\ ClaimedSteps(p) = 2
        /\ Cardinality(files) = 2

\* the number of decay stages that are <= e
PassedStages(e) ==
    Cardinality({i \in DOMAIN cfg.lr_decay_stages : cfg.lr_decay_stages[i] <= e})

\* basic_lr * world_size * batch_size * lr_decay_rate^k
ClaimedRate(p, e) ==
    RatMul(RatMul(RatMul(cfg.basic_lr, Rat(wargs[p].world_size, 1)),
                  Rat(args.batch_size, 1)),
           RatPow(cfg.lr_decay_rate, PassedStages(e)))

\* C7: outside the warmup (step >= warm_iters or epoch > 0) every parameter
\* group holds basic_lr * world_size * batch_size * lr_decay_rate^k while the
\* step runs, k the number of decay stages <= epoch, whatever the step; with
\* the stages [3, 6], k is 0 at epoch 2, 1 at epoch 3 and 2 at epoch 7.
C7_DecayedRate ==
    /\ \A p \in Procs :
           \A i \in Events(p, "step") :
               (hist[p][i].step >= cfg.warm_iters \/ hist[p][i].epoch > 0) =>
                   \A g \in ParamGroups :
                       RatEq(hist[p][i].lr[g], ClaimedRate(p, hist[p][i].epoch))
    /\ bisect_right(<<3, 6>>, 2) = 0
    /\ bisect_right(<<3, 6>>, 3) = 1
    /\ bisect_right(<<3, 6>>, 7) = 2

C7_Witness ==
    \E p \in Procs :
        /\ cfg.lr_decay_stages = <<0, 1>>
        /\ cfg.warm_iters = 1
        /\ cfg.basic_lr[1] > 0
        /\ \E i, j \in Events(p, "step") :
               /\ hist[p][i].epoch = 0
               /\ hist[p][i].step = 1
               /\ hist[p][j].epoch = 1

\* the steps of the warmup that the claim is about
WarmupSteps(p) ==
    {i \in Events(p, "step") : hist[p][i].epoch = 0 /\ hist[p][i].step < cfg.warm_iters}

\* C8: in the warmup of a positive base rate, the rate of a step is the epoch-0
\* rate * (step + 1) / warm_iters: it grows strictly with the step, is below
\* the epoch-0 rate before step warm_iters - 1 and equal to it at that step.
C8_Warmup ==
    \A p \in Procs :
        cfg.basic_lr[1] > 0 =>
            \A i \in WarmupSteps(p) :
                \A g \in ParamGroups :
                    /\ RatEq(hist[p][i].lr[g],
                             RatMul(ClaimedRate(p, 0),
                                    Rat(hist[p][i].step + 1, cfg.warm_iters)))
                    /\ hist[p][i].step < cfg.warm_iters - 1 =>
                           RatLt(hist[p][i].lr[g], ClaimedRate(p, 0))
                    /\ hist[p][i].step = cfg.warm_iters - 1 =>
                           RatEq(hist[p][i].lr[g], ClaimedRate(p, 0))
                    /\ \A j \in WarmupSteps(p) :
                           hist[p][j].step < hist[p][i].step =>
                               RatLt(hist[p][j].lr[g], hist[p][i].lr[g])

C8_Witness ==
    \E p \in Procs :
        /\ cfg.basic_lr[1] > 0
        /\ cfg.warm_iters = 2
        /\ \E i, j \in WarmupSteps(p) : hist[p][i].step = 0 /\ hist[p][j].step = 1

\* C9: two ranks of a run hold the same rate at the same (epoch, step).
C9_SameRateOnAllRanks ==
    \A p, q \in Procs :
        \A i \in Events(p, "step") :
            \A j \in Events(q, "step") :
                (hist[p][i].epoch = hist[q][j].epoch /\ hist[p][i].step = hist[q][j].step)
                    => SameLr(hist[p][i].lr, hist[q][j].lr)

C9_Witness ==
    \E p, q \in Procs :
        /\ rank(p) # rank(q)
        /\ cfg.basic_lr[1] > 0
        /\ cfg.warm_iters = 2
        /\ \E i \in Events(p, "step") :
               \E j \in Events(q, "step") :
                   /\ hist[p][i].epoch = 1
                   /\ hist[q][j].epoch = 1
                   /\ hist[p][i].step = hist[q][j].step

MeterIsEmpty(m) == \A i \in DOMAIN m : m[i].sum = 0 /\ m[i].count = 0

\* C10: rank 0 emits a log line at the steps that are multiples of log_interval
\* and at no other step, and right after a log line every slot of both meters
\* has sum 0 and count 0.
C10_LogAndReset ==
    \A p \in Procs :
        (Started(p) /\ rank(p) = 0) =>
            /\ \A i \in Events(p, "step") :
                   (i + 1 \in Events(p, "log")) <=> (hist[p][i].step % cfg.log_interval = 0)
            /\ \A i \in Events(p, "log") :
                   /\ i - 1 \in Events(p, "step")
                   /\ hist[p][i - 1].epoch = hist[p][i].epoch
                   /\ hist[p][i - 1].step = hist[p][i].step
            /\ (hist[p] # <<>> /\ hist[p][Len(hist[p])].type = "log") =>
                   /\ MeterIsEmpty(meter[p])
                   /\ MeterIsEmpty(time_meter[p])
                   /\ DOMAIN meter[p] = 1..num_losses
                   /\ DOMAIN time_meter[p] = 1..time_record_len

C10_Witness ==
    \E p \in Procs :
        /\ rank(p) = 0
        /\ cfg.log_interval = 2
        /\ Len(hist[p]) = 5
        /\ hist[p][3].type = "step"
        /\ hist[p][3].step = 1
        /\ hist[p][5].type = "log"
        /\ hist[p][5].step = 2
        /\ wpc[p] = "step"


\* ------------------------------------------------------------ the sampler
\* the number of thresholds of the run that are at most the ratio of item i
ThresholdsAtMost(i) ==
    Cardinality({k \in DOMAIN aspect_grouping :
                    ~RatLt(Rat(dataset[i].height, dataset[i].width),
                           aspect_grouping[k])})

\* the items of one bucket
BucketItems(g) == {i \in DOMAIN dataset : ThresholdsAtMost(i) = g}

RECURSIVE FullBatches(_, _)
\* the number of full batches the buckets 0..g hold
FullBatches(g, b) ==
    IF g < 0 THEN 0
    ELSE Cardinality(BucketItems(g)) \div b + FullBatches(g - 1, b)

SamplerBuilt == loader[0].made = 1

\* C11: every batch of the bucketed sampler holds exactly batch_size items of
\* one bucket, no index comes twice within a pass, and a pass holds exactly
\* the full batches of every bucket: a bucket's tail is dropped, neither
\* padded nor merged with another bucket's
C11_BucketedBatches ==
    (SamplerBuilt /\ aspect_grouping # <<>>) =>
        LET out == loader[0].out
            queue == loader[0].queue
        IN  /\ \A k \in DOMAIN out :
                   /\ Len(out[k]) = batch_size
                   /\ \A i, j \in DOMAIN out[k] :
                          /\ out[k][i] \in DOMAIN dataset
                          /\ ThresholdsAtMost(out[k][i]) = ThresholdsAtMost(out[k][j])
                          /\ i # j => out[k][i] # out[k][j]
            /\ \A k, l \in DOMAIN out :
                   k # l => \A i \in DOMAIN out[k], j \in DOMAIN out[l] :
                                out[k][i] # out[l][j]
            /\ Len(out) + Len(queue) = FullBatches(Len(aspect_grouping), batch_size)

\* a pass over three items of two buckets has ended with one batch of two
\* and the third item dropped
C11_Witness ==
    /\ SamplerBuilt
    /\ aspect_grouping # <<>>
    /\ batch_size = 2
    /\ Len(dataset) = 3
    /\ Cardinality({ThresholdsAtMost(i) : i \in DOMAIN dataset}) = 2
    /\ Len(loader[0].out) = 1
    /\ loader[0].queue = <<>>
    /\ loader[0].pulls = 1

\* the number of batches one pass of the driver's sampler holds
BatchesPerPass == FullBatches(Len(DefaultGrouping), batch_size)

\* C12: the driver makes its batch stream once, takes exactly one batch from
\* it for every step of every epoch, and the stream never runs out: a pass
\* that is used up is followed by the next pass
C12_UnboundedStream ==
    LET per_pass == BatchesPerPass
    IN  \A p \in Procs :
            /\ wpc[p] # "exhausted"
            /\ loader[p].made <= 1
            /\ wpc[p] \notin {"none", "start"} =>
                   /\ loader[p].made = 1
                   /\ loader[p].pulls = Cardinality(Events(p, "step"))
                   /\ loader[p].pulls =
                          (loader[p].pass - 1) * per_pass + Len(loader[p].out)
                   /\ Len(loader[p].out) + Len(loader[p].queue) = per_pass

\* a driver in its second epoch has taken more than twice the batches of a pass
C12_Witness ==
    \E p \in Procs :
        /\ epoch_id[p] >= 1
        /\ loader[p].made = 1
        /\ loader[p].pulls >= 2 * BatchesPerPass + 1
        /\ loader[p].pass >= 3
        /\ Shuffle(Len(dataset), seed, 2) # Shuffle(Len(dataset), seed, 1)

\* C13: average() is only called on a meter that has been updated since it was
\* made or reset: no worker ends in a division by zero, and every log line
\* averages over at least one update of the loss meter and of the time meter
C13_AverageOfNonEmpty ==
    \A p \in Procs :
        /\ wpc[p] # "divzero"
        /\ \A i \in Events(p, "log") :
               hist[p][i].covered[1] >= 1 /\ hist[p][i].covered[2] >= 1

\* a log line at step 0 and a later one in the same epoch, each right after a
\* reset or the construction of the meters
C13_Witness ==
    \E p \in Procs : \E i, j \in Events(p, "log") :
        /\ hist[p][i].epoch = hist[p][j].epoch
        /\ hist[p][i].step = 0
        /\ hist[p][j].step > 0
        /\ MeterIsEmpty(meter[p])

\* the rate the schedule gives to step s of epoch e on worker p
ScheduledRate(p, e, s) ==
    IF e = 0 /\ s < cfg.warm_iters
    THEN RatMul(ClaimedRate(p, 0), Rat(s + 1, cfg.warm_iters))
    ELSE ClaimedRate(p, e)

\* C14 as stated: every step of every epoch writes the scheduled rate to every
\* parameter group
C14_WritesEveryStep ==
    \A p \in Procs :
        \A i \in Events(p, "step") :
            /\ hist[p][i].wrote
            /\ \A g \in ParamGroups :
                   RatEq(hist[p][i].lr[g],
                         ScheduledRate(p, hist[p][i].epoch, hist[p][i].step))

\* C14: in every step of every epoch every parameter group holds the scheduled
\* rate of (epoch, step) when the batch is pulled, and the step itself writes
\* the rate exactly in the warmup (epoch 0, step < warm_iters); outside the
\* warmup the groups keep what the epoch's start or the last warmup step wrote
C14_RateHeldEveryStep ==
    \A p \in Procs :
        \A i \in Events(p, "step") :
            /\ hist[p][i].wrote <=> i \in WarmupSteps(p)
            /\ \A g \in ParamGroups :
                   RatEq(hist[p][i].lr[g],
                         ScheduledRate(p, hist[p][i].epoch, hist[p][i].step))

\* a warmup step that wrote, and a step of epoch 1 below warm_iters and a step
\* of epoch 0 past the warmup that did not, under a decaying positive rate
C14_Witness ==
    \E p \in Procs : \E i, j, k \in Events(p, "step") :
        /\ cfg.basic_lr[1] > 0
        /\ cfg.warm_iters = 1
        /\ cfg.lr_decay_stages = <<1>>
        /\ hist[p][i].epoch = 0 /\ hist[p][i].step = 0 /\ hist[p][i].wrote
        /\ hist[p][j].epoch = 0 /\ hist[p][j].step = 1 /\ ~hist[p][j].wrote
        /\ hist[p][k].epoch = 1 /\ hist[p][k].step = 0 /\ ~hist[p][k].wrote

\* the steps p has taken in its current epoch since its meters were made or
\* last reset: those after the last log line of the epoch
StepsSinceReset(p) ==
    Cardinality({i \in Events(p, "step") :
                    /\ hist[p][i].epoch = epoch_id[p]
                    /\ \A j \in Events(p, "log") :
                           hist[p][j].epoch = epoch_id[p] => j < i})

InStepLoop(p) == wpc[p] = "step"

\* C15 as stated: on every rank both meters count every step since they were
\* made or last reset
C15_BothCountOnEveryRank ==
    \A p \in Procs :
        InStepLoop(p) =>
            /\ \A k \in DOMAIN meter[p] : meter[p][k].count = StepsSinceReset(p)
            /\ \A k \in DOMAIN time_meter[p] :
                   time_meter[p][k].count = StepsSinceReset(p)

\* C15: every step records the two timings on every rank and the losses on
\* rank 0 only: after n steps since the meters were made or last reset the
\* time meter counts n on every rank, the loss meter n on rank 0 and 0 on the
\* other ranks
C15_TimingsEveryRankLossesRankZero ==
    \A p \in Procs :
        InStepLoop(p) =>
            /\ DOMAIN meter[p] = 1..num_losses
            /\ DOMAIN time_meter[p] = 1..time_record_len
            /\ \A k \in DOMAIN time_meter[p] :
                   time_meter[p][k].count = StepsSinceReset(p)
            /\ \A k \in DOMAIN meter[p] :
                   meter[p][k].count = IF rank(p) = 0 THEN StepsSinceReset(p) ELSE 0

\* rank 0 holds one step since its last log line while another rank holds two
\* timings and no loss
C15_Witness ==
    \E p, q \in Procs :
        /\ InStepLoop(p) /\ InStepLoop(q)
        /\ rank(p) = 0 /\ rank(q) # 0
        /\ Events(p, "log") # {}
        /\ StepsSinceReset(p) = 1
        /\ meter[p][1].count = 1
        /\ StepsSinceReset(q) = 2
        /\ time_meter[q][1].count = 2
        /\ meter[q][1].count = 0

\* the steps of one epoch that a log line at step s reports: one at step 0,
\* log_interval at a later log line
ReportedSteps(s) == IF s = 0 THEN 1 ELSE cfg.log_interval

\* C16: on rank 0 both meters are empty at the first step of every epoch, and
\* every log line averages over exactly the steps since the previous log line
\* of its epoch, one at step 0 and log_interval later on, these being the
\* steps of its own epoch right before it; what the steps after the last log
\* line of an epoch recorded is in no log line
C16_LogCoversItsInterval ==
    \A p \in Procs :
        (Started(p) /\ rank(p) = 0) =>
            /\ (wpc[p] = "step" /\ step[p] = 0) =>
                   /\ MeterIsEmpty(meter[p]) /\ meter[p] # NoMeter
                   /\ MeterIsEmpty(time_meter[p]) /\ time_meter[p] # NoMeter
            /\ \A i \in Events(p, "log") :
                   LET n == ReportedSteps(hist[p][i].step)
                   IN  /\ hist[p][i].covered = <<n, n>>
                       /\ Cardinality({j \in Events(p, "step") :
                              /\ hist[p][j].epoch = hist[p][i].epoch
                              /\ hist[p][j].step <= hist[p][i].step
                              /\ hist[p][j].step > hist[p][i].step - n}) = n

\* epoch 0 ended with a step after its last log line, and the first log line
\* of epoch 1 covers one step
C16_Witness ==
    \E p \in Procs : \E i \in Events(p, "step") : \E j \in Events(p, "log") :
        /\ rank(p) = 0
        /\ cfg.log_interval = 2
        /\ hist[p][i].epoch = 0
        /\ hist[p][i].step = 3
        /\ hist[p][j].epoch = 1
        /\ hist[p][j].step = 0
        /\ hist[p][j].covered = <<1, 1>>

\* what holds of the log directory in a state of a run that passes the check
LogDirReady ==
    /\ LogDirName = SaveDir
    /\ ~TooManyRequested =>
           \A p \in Procs :
               /\ Started(p) => log_dir
               /\ Events(p, "ckpt") # {} => log_dir
               /\ wpc[p] # "failed"

\* C17: in a run that passes the device check the log directory exists before
\* any worker starts, being created if absent, it is the directory of every
\* checkpoint and exists whenever one is written; a run that fails the check
\* leaves the directory as it found it
C17_LogDirBeforeWorkers ==
    /\ []LogDirReady
    /\ [][bpc = "mkdir" => log_dir']_vars
    /\ [][log_dir => log_dir']_vars
    /\ [][TooManyRequested => log_dir' = log_dir]_vars

\* rank 0 of two workers has written a checkpoint into the directory
C17_Witness ==
    \E p \in Procs :
        /\ ~TooManyRequested
        /\ world_size = 2
        /\ rank(p) = 0
        /\ Events(p, "ckpt") # {}
        /\ files # {}
        /\ log_dir

\* C18: the bucket id of an item is the number of thresholds that are at most
\* its height / width, so it lies in 0..(number of thresholds) and a ratio on
\* a threshold takes the higher bucket; under the single threshold 1 a wide
\* item gets 0, a square or tall one 1; with no threshold no bucket id is
\* computed and the sampler is the wrapped random sampler that drops the tail
C18_BucketIds ==
    SamplerBuilt =>
        LET smp == loader[0].sampler
        IN  /\ smp.infinite
            /\ aspect_grouping # <<>> =>
                   /\ smp.kind = "grouped"
                   /\ DOMAIN smp.group_ids = DOMAIN dataset
                   /\ \A i \in DOMAIN dataset :
                          /\ smp.group_ids[i] = ThresholdsAtMost(i)
                          /\ smp.group_ids[i] \in 0..Len(aspect_grouping)
                          /\ aspect_grouping = DefaultGrouping =>
                                 smp.group_ids[i] = IF dataset[i] = Wide THEN 0 ELSE 1
            /\ aspect_grouping = <<>> =>
                   /\ smp.kind = "random"
                   /\ smp.group_ids = <<>>
                   /\ \A k \in DOMAIN loader[0].out :
                          Len(loader[0].out[k]) = batch_size
                   /\ Len(loader[0].out) + Len(loader[0].queue) =
                          Len(dataset) \div batch_size

\* under the thresholds 2, 1 a wide, a square and a tall item got 0, 1 and 2:
\* the square and the tall one lie on a threshold each
C18_Witness ==
    /\ SamplerBuilt
    /\ aspect_grouping = <<Rat(2, 1), Rat(1, 1)>>
    /\ dataset = <<Tall, Wide, Square>>
    /\ loader[0].sampler.group_ids = <<2, 0, 1>>

\* main() is past the device check and the choice between the two modes
ModeChosen == bpc \notin {"check", "mkdir", "exited"}

\* C19: with a world size of at most 1 past the device check, 0 and negative
\* sizes included, the bootstrap starts no process and runs one driver itself
\* with rank 0 and world size 1, which joins no group; a worker joins the
\* group exactly when its world size is above 1
C19_SingleDeviceInProcess ==
    /\ (ModeChosen /\ world_size <= 1) =>
           /\ processes = <<>>
           /\ \A p \in Procs \ {0} : ~Started(p)
           /\ bpc \in {"call", "inproc", "done"}
           /\ bpc # "call" => Started(0) /\ wargs[0] = [rank |-> 0, world_size |-> 1]
           /\ group = {}
    /\ (ModeChosen /\ world_size > 1) => ~Started(0)
    /\ \A p \in Procs :
           wpc[p] \notin {"none", "start"} => (p \in group <=> world(p) > 1)

\* a request for -2 devices has been run to its end by the bootstrap itself
C19_Witness ==
    /\ args.ngpus = -2
    /\ world_size = -2
    /\ bpc = "done"
    /\ wpc[0] = "done"
    /\ Events(0, "step") # {}
    /\ files # {}
    /\ group = {}

\* a worker has crashed and a peer waits for it in the step it cannot take
Stuck ==
    \E q \in Procs :
        /\ wpc[q] = "crashed"
        /\ \E p \in Procs \ {q} :
               wpc[p] = "step" /\ step[p] < tot_steps[p] /\ Blocked(p)

\* C20: once a worker has crashed and a peer is blocked on it, the peer stays
\* blocked and alive, and the bootstrap stays in its spawn and join loops: it
\* neither ends nor sets an exit code
C20_JoinBlocksForever ==
    /\ [](Stuck => bpc \in {"spawn", "join"} /\ exit_code = -1)
    /\ [][Stuck => Stuck']_vars
    /\ [][Stuck => \A p \in Procs :
                       (wpc[p] = "step" /\ step[p] < tot_steps[p] /\ Blocked(p))
                           => (wpc'[p] = "step" /\ step'[p] = step[p])]_vars

\* the bootstrap has joined the crashed first worker and waits for the
\* second, which is blocked in its second step
C20_Witness ==
    /\ Stuck
    /\ bpc = "join"
    /\ joined = 1
    /\ wpc[1] = "crashed"
    /\ wpc[2] = "step"
    /\ step[1] = 1
    /\ step[2] = 1

====
